---- MODULE Spec2Model ----
(***************************************************************************)
(* Sova Chatbot API (src/api/main.py): module start-up, the POST /chat     *)
(* handler chat_with_sova and the GET / handler root.                      *)
(*                                                                         *)
(* Both handlers are coroutines that contain no await expression: the      *)
(* call chat_session.send_message(...) on line 134 is the synchronous      *)
(* client call.  The event loop therefore runs a handler from its first    *)
(* line to its return without running any other coroutine, so at most one  *)
(* invocation has a frame at any time; requests the server has accepted    *)
(* meanwhile wait in `pending`.                                            *)
(*                                                                         *)
(* The generative-AI client library is not part of the repository.  Its    *)
(* answers are inputs: send_message either raises or returns a reply, and  *)
(* the reply's candidates, text, the parts of the model turn and whether   *)
(* reading the session's history raises are drawn from UpstreamReplies.    *)
(***************************************************************************)
EXTENDS Integers, Sequences, FiniteSets, TLC

VARIABLES
    GEMINI_API_KEY,   \* line 26: the credential read from the environment
    phase,            \* position of the module-level code (lines 9-100)
    exit_code,        \* <<>> while the process lives, <<n>> after exit(n)
    configured,       \* line 34: genai.configure has been called
    model,            \* line 95: the module-level GenerativeModel
    pending,          \* requests accepted by the server, not yet started
    pc,               \* position of the one running chat_with_sova frame
    request,          \* the ChatRequest of the current invocation
    genai_history,    \* line 123: the list built by the inbound loop
    chat_session,     \* line 131: the session of the current invocation
    response,         \* line 134: what send_message returned
    exc,              \* <<>> or <<e>>: the exception caught on line 154
    calls,            \* outbound calls made by the current invocation
    result,           \* what the current invocation gave the framework
    prev_status,      \* status the previous invocation's client received
    root_served,      \* GET / requests answered
    root_result       \* the last answer of GET /

vars == <<GEMINI_API_KEY, phase, exit_code, configured, model, pending, pc,
          request, genai_history, chat_session, response, exc, calls, result,
          prev_status, root_served, root_result>>

startup_vars == <<GEMINI_API_KEY, phase, exit_code, configured, model>>
chat_vars == <<pc, request, genai_history, chat_session, response, exc, calls,
               result, prev_status>>
root_vars == <<root_served, root_result>>

-----------------------------------------------------------------------------
(* Bounds of the model *)

\* longest inbound history
MaxHist == 2
\* most requests waiting for the event loop
MaxPending == 1
\* most GET / requests answered
MaxRoot == 2

-----------------------------------------------------------------------------
(* Values *)

\* os.getenv returns None when the variable is not set
NoKey == "<None>"
Keys == {NoKey, "", "secret-key"}

APP_VERSION == "1.0.0"
MODEL_NAME == "gemini-2.5-flash"
ROOT_MESSAGE == "Sova Chatbot API is running. Use the /chat endpoint to interact."
REFUSAL == "I'm sorry, I cannot respond to that query due to safety concerns. Please try rephrasing your question."
ERROR_PREFIX == "Internal server error: "
SAFETY_SETTING_BLOCK == 4

NoModel == [model_name |-> ""]
NoRequest == [message |-> "", history |-> <<>>]
NoSession == [history |-> <<>>]
NoResponse == [candidates |-> <<>>, text |-> <<>>, parts |-> <<>>,
               history_raises |-> FALSE]
NoResult == [status |-> 0]

\* HistoryPart, HistoryEntry, ChatRequest (lines 103-114)
HistoryPart(t) == [text |-> t]
HistoryEntry(r, ps) == [role |-> r, parts |-> ps]

SampleEntries ==
    { HistoryEntry("user", <<HistoryPart("a"), HistoryPart("")>>),
      HistoryEntry("model", <<HistoryPart("b")>>),
      HistoryEntry("user", <<>>) }

RECURSIVE SeqsUpTo(_, _)
SeqsUpTo(S, n) ==
    IF n = 0 THEN { <<>> }
    ELSE LET shorter == SeqsUpTo(S, n - 1)
         IN  shorter \cup { Append(s, x) : s \in shorter, x \in S }

Messages == {"", "hi"}
ChatRequests ==
    [message : Messages, history : SeqsUpTo(SampleEntries, MaxHist)]

-----------------------------------------------------------------------------
(* Start-up: the module-level code *)

\* mutant of KeyMissing: `if GEMINI_API_KEY is None`
KeyIsNone(k) == k = NoKey

\* line 28: `if not GEMINI_API_KEY`
KeyMissing(k) == k = NoKey \/ k = ""

Init ==
    /\ GEMINI_API_KEY \in Keys
    /\ phase = "import"
    /\ exit_code = <<>>
    /\ configured = FALSE
    /\ model = NoModel
    /\ pending = 0
    /\ pc = "idle"
    /\ request = NoRequest
    /\ genai_history = <<>>
    /\ chat_session = NoSession
    /\ response = NoResponse
    /\ exc = <<>>
    /\ calls = 0
    /\ result = NoResult
    /\ prev_status = 0
    /\ root_served = 0
    /\ root_result = NoResult

\* lines 28-32: exit(1) when the credential is missing
ExitMissingKey ==
    /\ phase = "import"
    /\ KeyMissing(GEMINI_API_KEY)
    /\ phase' = "exited"
    /\ exit_code' = <<1>>
    /\ UNCHANGED <<GEMINI_API_KEY, configured, model, pending>>
    /\ UNCHANGED chat_vars
    /\ UNCHANGED root_vars

\* line 34: genai.configure(api_key=GEMINI_API_KEY)
Configure ==
    /\ phase = "import"
    /\ ~KeyMissing(GEMINI_API_KEY)
    /\ configured' = TRUE
    /\ phase' = "configured"
    /\ UNCHANGED <<GEMINI_API_KEY, exit_code, model, pending>>
    /\ UNCHANGED chat_vars
    /\ UNCHANGED root_vars

\* lines 95-100: the global model; the import ends and the app serves
InitModel ==
    /\ phase = "configured"
    /\ model' = [model_name |-> MODEL_NAME]
    /\ phase' = "serving"
    /\ UNCHANGED <<GEMINI_API_KEY, exit_code, configured, pending>>
    /\ UNCHANGED chat_vars
    /\ UNCHANGED root_vars

-----------------------------------------------------------------------------
(* The client library, as far as the handler uses it *)

\* what send_message may return: the candidates with their finish reasons,
\* response.text (<<>> when the accessor raises), the parts of the model
\* turn (a part may have no text attribute) and whether reading
\* chat_session.history raises
CandidateLists ==
    { <<>>,
      <<[finish_reason |-> 1]>>,
      <<[finish_reason |-> 3]>>,
      <<[finish_reason |-> 4]>>,
      <<[finish_reason |-> 1], [finish_reason |-> 4]>> }
TextOutcomes == { <<>>, <<"">>, <<"Hello">> }
ModelParts ==
    { <<[text |-> "Hello"]>>,
      <<[function_call |-> "lookup"], [text |-> "Hello"]>> }
UpstreamReplies ==
    [candidates : CandidateLists, text : TextOutcomes, parts : ModelParts,
     history_raises : {FALSE}]
    \cup [candidates : CandidateLists, text : { <<"Hello">> },
          parts : { <<[text |-> "Hello"]>> }, history_raises : {TRUE}]

\* messages of the exceptions send_message may raise
UpstreamErrors == {"", "429 quota exceeded"}
START_CHAT_ERROR == "unable to start the chat session"
HISTORY_ERROR == "unable to read the session history"
TEXT_ERROR == "response.text requires a valid Part"

\* line 131: model.start_chat(history=genai_history); the session keeps the
\* turns it was seeded with, every part an object with a text attribute
StartChat(history) == [history |-> history]

\* line 134: after send_message returns, the session holds the seeded turns,
\* the message sent as a user turn and the model's turn
SessionAfterSend(session, message, reply) ==
    [history |-> session.history \o
                 << [role |-> "user", parts |-> <<[text |-> message]>>],
                    [role |-> "model", parts |-> reply.parts] >>]

-----------------------------------------------------------------------------
(* POST /chat: chat_with_sova, lines 116-156 *)

\* mutant of NewList: the list is not emptied between invocations
StaleList == genai_history

\* line 123: genai_history = []
NewList == <<>>

\* lines 125-127: one dict {"text": p_part.text} per part, in order
RECURSIVE InboundParts(_, _)
InboundParts(parts, p_parts) ==
    IF p_parts = <<>> THEN parts
    ELSE InboundParts(Append(parts, [text |-> Head(p_parts).text]),
                      Tail(p_parts))

\* lines 124-128: one dict {"role", "parts"} per entry, in order
RECURSIVE InboundLoop(_, _)
InboundLoop(acc, history) ==
    IF history = <<>> THEN acc
    ELSE InboundLoop(
             Append(acc, [role |-> Head(history).role,
                          parts |-> InboundParts(<<>>, Head(history).parts)]),
             Tail(history))

\* mutant of HasText: `if part.text`
HasNonEmptyText(part) == "text" \in DOMAIN part /\ part.text # ""

\* line 147: hasattr(part, 'text')
HasText(part) == "text" \in DOMAIN part

\* line 147: [HistoryPart(text=part.text) for part in content.parts if ...]
RECURSIVE PartsList(_)
PartsList(parts) ==
    IF parts = <<>> THEN <<>>
    ELSE IF HasText(Head(parts))
         THEN <<HistoryPart(Head(parts).text)>> \o PartsList(Tail(parts))
         ELSE PartsList(Tail(parts))

\* lines 145-148: the outbound loop over chat_session.history
RECURSIVE OutboundLoop(_)
OutboundLoop(history) ==
    IF history = <<>> THEN <<>>
    ELSE <<HistoryEntry(Head(history).role, PartsList(Head(history).parts))>>
         \o OutboundLoop(Tail(history))

\* mutant of Blocked: any candidate, not the first, has the blocked code
BlockedAny(resp) ==
    \E i \in 1..Len(resp.candidates) :
        resp.candidates[i].finish_reason = SAFETY_SETTING_BLOCK

\* line 137: response.candidates and response.candidates[0].finish_reason == 4
Blocked(resp) ==
    /\ resp.candidates # <<>>
    /\ resp.candidates[1].finish_reason = SAFETY_SETTING_BLOCK

\* mutant of BlockedResult: the session's turns are returned
BlockedResultAppended(req) ==
    [status |-> 200, response |-> REFUSAL,
     history |-> req.history \o
                 <<HistoryEntry("user", <<HistoryPart(req.message)>>)>>]

\* lines 138-141
BlockedResult(req) ==
    [status |-> 200, response |-> REFUSAL, history |-> req.history]

\* mutant of SuccessResult: the model's turn is left out
SuccessResultShort(text, updated_history) ==
    [status |-> 200, response |-> text,
     history |-> SubSeq(updated_history, 1, Len(updated_history) - 1)]

\* lines 150-153
SuccessResult(text, updated_history) ==
    [status |-> 200, response |-> text, history |-> updated_history]

\* mutant of ErrorDetail: detail=str(e)
ErrorDetailBare(e) == e

\* line 156: detail=f"Internal server error: {e}"
ErrorDetail(e) == ERROR_PREFIX \o e

\* line 156: HTTPException(status_code=500, detail=...)
ErrorResult(e) == [status |-> 500, detail |-> ErrorDetail(e)]

\* mutant of OnUpstreamException: the call is tried again
RetryOnException == "send"

\* line 154: an exception of send_message goes to the except clause
OnUpstreamException == "except"

\* the server accepts a request; it waits for the event loop
Arrive ==
    /\ phase = "serving"
    /\ pending < MaxPending
    /\ pending' = pending + 1
    /\ UNCHANGED startup_vars
    /\ UNCHANGED chat_vars
    /\ UNCHANGED root_vars

\* lines 117-128: the event loop starts the handler on a parsed ChatRequest;
\* the inbound loop runs
Begin ==
    /\ phase = "serving"
    /\ pc \in {"idle", "responded"}
    /\ pending > 0
    /\ \E req \in ChatRequests :
          /\ request' = req
          /\ genai_history' = InboundLoop(NewList, req.history)
    /\ pending' = pending - 1
    /\ prev_status' = result.status
    /\ chat_session' = NoSession
    /\ response' = NoResponse
    /\ exc' = <<>>
    /\ calls' = 0
    /\ result' = NoResult
    /\ pc' = "start_chat"
    /\ UNCHANGED startup_vars
    /\ UNCHANGED root_vars

\* line 131: model.start_chat raises; the except clause is reached before
\* line 134 has run
StartChatRaises ==
    /\ pc = "start_chat"
    /\ exc' = <<START_CHAT_ERROR>>
    /\ pc' = "except"
    /\ UNCHANGED <<request, genai_history, chat_session, response, calls,
                   result, prev_status, pending>>
    /\ UNCHANGED startup_vars
    /\ UNCHANGED root_vars

\* line 131: model.start_chat returns the session
StartChatStep ==
    /\ pc = "start_chat"
    /\ chat_session' = StartChat(genai_history)
    /\ pc' = "send"
    /\ UNCHANGED <<request, genai_history, response, exc, calls, result,
                   prev_status, pending>>
    /\ UNCHANGED startup_vars
    /\ UNCHANGED root_vars

\* line 134: the synchronous call goes out; the frame, and with it the
\* event loop, waits inside send_message
CallUpstream ==
    /\ pc = "send"
    /\ calls' = calls + 1
    /\ pc' = "awaiting"
    /\ UNCHANGED <<request, genai_history, chat_session, response, exc, result,
                   prev_status, pending>>
    /\ UNCHANGED startup_vars
    /\ UNCHANGED root_vars

\* line 134: send_message raises
UpstreamRaises ==
    /\ pc = "awaiting"
    /\ \E e \in UpstreamErrors : exc' = <<e>>
    /\ pc' = OnUpstreamException
    /\ UNCHANGED <<request, genai_history, chat_session, response, calls,
                   result, prev_status, pending>>
    /\ UNCHANGED startup_vars
    /\ UNCHANGED root_vars

\* line 134: send_message returns
UpstreamReturns ==
    /\ pc = "awaiting"
    /\ \E reply \in UpstreamReplies :
          /\ response' = reply
          /\ chat_session' = SessionAfterSend(chat_session, request.message, reply)
    /\ pc' = "check"
    /\ UNCHANGED <<request, genai_history, exc, calls, result, prev_status,
                   pending>>
    /\ UNCHANGED startup_vars
    /\ UNCHANGED root_vars

\* lines 137-141: the blocked branch returns
ReturnBlocked ==
    /\ pc = "check"
    /\ Blocked(response)
    /\ result' = BlockedResult(request)
    /\ pc' = "responded"
    /\ UNCHANGED <<request, genai_history, chat_session, response, exc, calls,
                   prev_status, pending>>
    /\ UNCHANGED startup_vars
    /\ UNCHANGED root_vars

\* line 137: the condition is false
NotBlocked ==
    /\ pc = "check"
    /\ ~Blocked(response)
    /\ pc' = "readback"
    /\ UNCHANGED <<request, genai_history, chat_session, response, exc, calls,
                   result, prev_status, pending>>
    /\ UNCHANGED startup_vars
    /\ UNCHANGED root_vars

\* lines 146-148 or 151: reading chat_session.history or response.text raises
ReadBackRaises ==
    /\ pc = "readback"
    /\ \/ /\ response.history_raises
          /\ exc' = <<HISTORY_ERROR>>
       \/ /\ ~response.history_raises
          /\ response.text = <<>>
          /\ exc' = <<TEXT_ERROR>>
    /\ pc' = "except"
    /\ UNCHANGED <<request, genai_history, chat_session, response, calls,
                   result, prev_status, pending>>
    /\ UNCHANGED startup_vars
    /\ UNCHANGED root_vars

\* lines 145-153: the outbound loop, then the success return
ReturnSuccess ==
    /\ pc = "readback"
    /\ ~response.history_raises
    /\ response.text # <<>>
    /\ result' = SuccessResult(response.text[1],
                               OutboundLoop(chat_session.history))
    /\ pc' = "responded"
    /\ UNCHANGED <<request, genai_history, chat_session, response, exc, calls,
                   prev_status, pending>>
    /\ UNCHANGED startup_vars
    /\ UNCHANGED root_vars

\* lines 154-156: the except clause
Except ==
    /\ pc = "except"
    /\ result' = ErrorResult(exc[1])
    /\ pc' = "responded"
    /\ UNCHANGED <<request, genai_history, chat_session, response, exc, calls,
                   prev_status, pending>>
    /\ UNCHANGED startup_vars
    /\ UNCHANGED root_vars

-----------------------------------------------------------------------------
(* GET /: root, lines 158-167 *)

\* mutant of RootResult: the status follows the last chat's outcome
RootResultByHealth ==
    [status |-> IF result.status = 500 THEN 503 ELSE 200,
     message |-> ROOT_MESSAGE, version |-> APP_VERSION,
     model |-> model.model_name]

\* lines 163-167
RootResult ==
    [status |-> 200, message |-> ROOT_MESSAGE, version |-> APP_VERSION,
     model |-> model.model_name]

\* the event loop runs root when no chat_with_sova frame is running
Root ==
    /\ phase = "serving"
    /\ pc \in {"idle", "responded"}
    /\ root_served < MaxRoot
    /\ root_result' = RootResult
    /\ root_served' = root_served + 1
    /\ UNCHANGED pending
    /\ UNCHANGED startup_vars
    /\ UNCHANGED chat_vars

-----------------------------------------------------------------------------
Next ==
    \/ ExitMissingKey
    \/ Configure
    \/ InitModel
    \/ Arrive
    \/ Begin
    \/ StartChatRaises
    \/ StartChatStep
    \/ CallUpstream
    \/ UpstreamRaises
    \/ UpstreamReturns
    \/ ReturnBlocked
    \/ NotBlocked
    \/ ReadBackRaises
    \/ ReturnSuccess
    \/ Except
    \/ Root

Spec == Init /\ [][Next]_vars

-----------------------------------------------------------------------------
(* Vocabulary of the properties *)

Responded == pc = "responded"
\* send_message returned a reply (it did not raise)
UpstreamReturned == response # NoResponse
\* nothing was raised anywhere in the invocation
NothingRaised == exc = <<>>
\* the reply carries the blocked signal: a first candidate with finish reason 4
SuppressionSignalled ==
    /\ UpstreamReturned
    /\ response.candidates # <<>>
    /\ response.candidates[1].finish_reason = 4
\* the upstream call succeeded and was not flagged as blocked
SucceededUnblocked ==
    /\ Responded
    /\ UpstreamReturned
    /\ NothingRaised
    /\ ~SuppressionSignalled
InboundLen == Len(request.history)
\* the two turns a successful exchange adds
LastTwoAreUserThenModel ==
    /\ Len(result.history) = InboundLen + 2
    /\ result.history[InboundLen + 1] =
           [role |-> "user", parts |-> <<[text |-> request.message]>>]
    /\ result.history[InboundLen + 2].role = "model"
RefusalOutcome ==
    [status |-> 200,
     response |-> "I'm sorry, I cannot respond to that query due to safety concerns. Please try rephrasing your question.",
     history |-> request.history]
CredentialAbsent == GEMINI_API_KEY \in {NoKey, ""}

-----------------------------------------------------------------------------
(* Properties *)

\* C1, as stated: for a request with a non-empty message, when the upstream
\* call succeeds and is not blocked, the response text is non-empty and the
\* history is the inbound history plus a user turn carrying the message and
\* a model turn.
C1_NonEmptyResponse ==
    (SucceededUnblocked /\ request.message # "")
        => /\ result.status = 200
           /\ result.response # ""
           /\ LastTwoAreUserThenModel

\* C1, amended: for a request with a non-empty message, when the upstream
\* call succeeds and is not blocked, the response text is the upstream
\* reply's text unchanged (empty when that text is empty) and the history is
\* the inbound history plus a user turn carrying the message and a model
\* turn.
C1_RelaysTextAndAppendsTwo ==
    (SucceededUnblocked /\ request.message # "")
        => /\ result.status = 200
           /\ result.response = response.text[1]
           /\ (response.text[1] # "" => result.response # "")
           /\ LastTwoAreUserThenModel

C1_Witness ==
    /\ SucceededUnblocked
    /\ request.message = "hi"
    /\ InboundLen = 1
    /\ result.response = "Hello"
    /\ Len(result.history) = 3

\* C2: when the upstream signals suppression, the returned history is the
\* inbound history exactly and the response is the fixed refusal string.
C2_BlockedEchoesHistory ==
    (Responded /\ SuppressionSignalled)
        => /\ result.status = 200
           /\ result.history = request.history
           /\ Len(result.history) = InboundLen
           /\ result.response = REFUSAL

C2_Witness ==
    /\ Responded
    /\ SuppressionSignalled
    /\ InboundLen = 2
    /\ result.history = request.history

\* C3: the inbound loop followed by the outbound loop gives back every turn
\* with its role and its text parts in order, so a successful call returns
\* the inbound history as the first entries of its history.
C3_RoundTrip ==
    /\ pc \in {"send", "awaiting"}
           => OutboundLoop(chat_session.history) = request.history
    /\ SucceededUnblocked
           => /\ Len(result.history) >= InboundLen
              /\ SubSeq(result.history, 1, InboundLen) = request.history

C3_Witness ==
    /\ SucceededUnblocked
    /\ InboundLen = 2
    /\ request.history[1].parts = <<[text |-> "a"], [text |-> ""]>>
    /\ request.history[2].role = "model"
    /\ SubSeq(result.history, 1, 2) = request.history

\* C4: an exception raised by the upstream call or while translating ends
\* in the except clause and nowhere else, and the invocation answers with
\* status 500 and a non-empty detail that embeds the cause, with no response
\* text and no history.
C4_ExceptionBecomes500 ==
    /\ exc # <<>> => pc \in {"except", "responded"}
    /\ pc = "except" => result = NoResult
    /\ (Responded /\ exc # <<>>)
           => /\ result.status = 500
              /\ DOMAIN result = {"status", "detail"}
              /\ result.detail # ""
              /\ result.detail = "Internal server error: " \o exc[1]

C4_Witness ==
    /\ Responded
    /\ exc = <<"">>
    /\ ~UpstreamReturned
    /\ result.status = 500

\* what the request and the upstream's answer to it determine
ExpectedOutcome ==
    IF ~UpstreamReturned
    THEN [status |-> 500, detail |-> "Internal server error: " \o exc[1]]
    ELSE IF SuppressionSignalled
    THEN RefusalOutcome
    ELSE IF response.history_raises
    THEN [status |-> 500,
          detail |-> "Internal server error: " \o HISTORY_ERROR]
    ELSE IF response.text = <<>>
    THEN [status |-> 500, detail |-> "Internal server error: " \o TEXT_ERROR]
    ELSE [status |-> 200,
          response |-> response.text[1],
          history |-> request.history \o
              << [role |-> "user", parts |-> <<[text |-> request.message]>>],
                 [role |-> "model",
                  parts |-> SelectSeq(response.parts,
                                      LAMBDA part : "text" \in DOMAIN part)] >>]

\* C5: the outcome of an invocation is the one its own request and the
\* upstream's answer to it determine, whatever invocations came before, and
\* the process and its module-level objects stay as start-up left them.
C5_Stateless ==
    /\ Responded => result = ExpectedOutcome
    /\ pc # "idle"
           => /\ phase = "serving"
              /\ exit_code = <<>>
              /\ configured
              /\ model = [model_name |-> "gemini-2.5-flash"]

C5_Witness ==
    /\ Responded
    /\ prev_status = 500
    /\ result.status = 200
    /\ InboundLen = 1
    /\ Len(result.history) = 3

\* C6: with the credential absent the process exits with a non-zero status,
\* the client is never configured and no request is ever accepted or
\* handled.
C6_NoServingWithoutKey ==
    /\ CredentialAbsent
           => /\ phase \in {"import", "exited"}
              /\ ~configured
              /\ model = NoModel
              /\ pending = 0
              /\ pc = "idle"
              /\ root_served = 0
    /\ phase = "exited"
           => /\ CredentialAbsent
              /\ exit_code # <<>>
              /\ exit_code[1] # 0

C6_Witness ==
    /\ GEMINI_API_KEY = NoKey
    /\ phase = "exited"
    /\ exit_code = <<1>>

\* C7: every answer of GET / has status 200, a non-empty version and a
\* non-empty model, equals the answer before it, and answering makes no
\* upstream call and moves no chat invocation.
C7_RootIsStatic ==
    [][root_served' # root_served
           => /\ root_result'.status = 200
              /\ root_result'.version # ""
              /\ root_result'.model # ""
              /\ root_served > 0 => root_result' = root_result
              /\ calls' = calls
              /\ pc' = pc]_vars

C7_Witness ==
    /\ root_served = 2
    /\ root_result.status = 200
    /\ Responded
    /\ result.status = 500

\* C8, as stated: every invocation makes one outbound call: never a second,
\* and every answer, the 500 included, is given after the call was made.
C8_EveryInvocationCallsOnce ==
    /\ calls <= 1
    /\ Responded => calls = 1

\* C8, amended: an invocation makes at most one outbound call: none before
\* line 134, one from then on, never a second (no retry after an upstream
\* exception or a blocked reply); a success or a refusal is returned only
\* after the call, and an invocation answers without having made the call
\* only with status 500, when starting the session raised.
C8_AtMostOneUpstreamCall ==
    /\ calls <= 1
    /\ pc \in {"idle", "start_chat", "send"} => calls = 0
    /\ pc \in {"awaiting", "check", "readback"} => calls = 1
    /\ (Responded /\ result.status = 200) => calls = 1
    /\ (Responded /\ exc \in {<<e>> : e \in UpstreamErrors}) => calls = 1
    /\ (Responded /\ calls = 0)
           => /\ result.status = 500
              /\ exc = <<START_CHAT_ERROR>>
              /\ ~UpstreamReturned

C8_Witness ==
    /\ Responded
    /\ ~UpstreamReturned
    /\ result.status = 500
    /\ calls = 1

\* C9: while an invocation waits at its outbound call, another accepted
\* request can start.
C9_OthersStartDuringCall ==
    (pc = "awaiting" /\ pending > 0) => ENABLED Begin

\* C10: the refusal outcome is returned exactly when the reply has a first
\* candidate whose finish reason is 4; every other reply, when nothing
\* raises, takes the success path.
C10_RefusalIffFirstCandidateBlocked ==
    (Responded /\ UpstreamReturned)
        => /\ (result = RefusalOutcome) <=> SuppressionSignalled
           /\ (~SuppressionSignalled /\ NothingRaised)
                  => /\ result.status = 200
                     /\ result.response = response.text[1]
                     /\ result.history = OutboundLoop(chat_session.history)
                     /\ Len(result.history) = InboundLen + 2

C10_Witness ==
    /\ Responded
    /\ UpstreamReturned
    /\ response.candidates = <<>>
    /\ result.status = 200
    /\ result.response = "Hello"

====
